---- MODULE Spec2Model ----
(***************************************************************************)
(* Conway's Game of Life: the Grid engine of src/src/conways.rs and the     *)
(* Game that drives it in src/src/main.rs.                                 *)
(*                                                                         *)
(* A Vec<T> is modelled as a TLA+ sequence; the Rust index i is the        *)
(* sequence index i + 1.  An indexing panic ("index out of bounds") is the *)
(* outcome "OutOfBounds"; the panic unwinds before any write happens.      *)
(***************************************************************************)
EXTENDS Integers, Sequences, FiniteSets, TLC

VARIABLES
    grid, width, height,   \* the fields of the Grid
    ctor,                  \* the arguments Grid::new was called with
    pre,                   \* the fields as they were before the last call
    last,                  \* the last call: operation, arguments, result
    game_state,            \* Game.state: "Running" or "Paused"
    last_update,           \* Game.last_update, in milliseconds
    pc,                    \* the call the main loop makes next
    frames,                \* the number of passes of the main loop so far
    frame                  \* what the last call of the main loop read and did

gvars == <<game_state, last_update, pc, frames, frame>>

vars == <<grid, width, height, ctor, pre, last, game_state, last_update, pc, frames, frame>>

(* ------------------------------ bounds --------------------------------- *)

\* largest width / height handed to Grid::new
MaxW == 3
MaxH == 3
\* largest number of cells of a grid
MaxCells == 9


(* ------------------------------ CellState ------------------------------ *)

Dead == "Dead"
Alive == "Alive"
CellState == {Dead, Alive}

(* ------------------------------ Vec ------------------------------------ *)

\* vec![elem; n]
VecRepeat(elem, n) == [i \in 1..n |-> elem]

\* slice::get(i) is Some(&v[i]) exactly when i < v.len(), else None
IsSome(v, i) == i >= 0 /\ i < Len(v)

\* v[i] panics exactly when i >= v.len()
IndexPanics(v, i) == ~(i >= 0 /\ i < Len(v))

(* ------------------------------ Grid ----------------------------------- *)

\* Grid::new with the two lengths exchanged: width rows of height cells
NewTransposed(w, h) ==
    [grid |-> VecRepeat(VecRepeat(Dead, h), w), width |-> w, height |-> h]

\* Grid::new: height rows of width Dead cells; no check of the arguments
New(w, h) ==
    [grid |-> VecRepeat(VecRepeat(Dead, w), h), width |-> w, height |-> h]

\* Grid::get with the two indices exchanged: self.grid[x][y].clone()
GetTransposed(g, x, y) ==
    IF IndexPanics(g, x) THEN [outcome |-> "OutOfBounds", cell |-> Dead]
    ELSE IF IndexPanics(g[x + 1], y) THEN [outcome |-> "OutOfBounds", cell |-> Dead]
    ELSE [outcome |-> "ok", cell |-> g[x + 1][y + 1]]

\* Grid::get: self.grid[y][x].clone()
Get(g, x, y) ==
    IF IndexPanics(g, y) THEN [outcome |-> "OutOfBounds", cell |-> Dead]
    ELSE IF IndexPanics(g[y + 1], x) THEN [outcome |-> "OutOfBounds", cell |-> Dead]
    ELSE [outcome |-> "ok", cell |-> g[y + 1][x + 1]]

\* the smaller of two naturals
Min(a, b) == IF a <= b THEN a ELSE b

\* Grid::set that clamps the indices onto the last row / column
SetClamped(g, x, y, state) ==
    IF Len(g) = 0 THEN [outcome |-> "OutOfBounds", grid |-> g]
    ELSE IF Len(g[Min(y, Len(g) - 1) + 1]) = 0 THEN [outcome |-> "OutOfBounds", grid |-> g]
    ELSE LET cy == Min(y, Len(g) - 1)
             cx == Min(x, Len(g[cy + 1]) - 1)
         IN  [outcome |-> "ok",
              grid |-> [g EXCEPT ![cy + 1] = [g[cy + 1] EXCEPT ![cx + 1] = state]]]

\* Grid::set that overwrites the whole row y
SetRow(g, x, y, state) ==
    IF IndexPanics(g, y) THEN [outcome |-> "OutOfBounds", grid |-> g]
    ELSE IF IndexPanics(g[y + 1], x) THEN [outcome |-> "OutOfBounds", grid |-> g]
    ELSE [outcome |-> "ok",
          grid |-> [g EXCEPT ![y + 1] = VecRepeat(state, Len(g[y + 1]))]]

\* Grid::set: self.grid[y][x] = state
Set(g, x, y, state) ==
    IF IndexPanics(g, y) THEN [outcome |-> "OutOfBounds", grid |-> g]
    ELSE IF IndexPanics(g[y + 1], x) THEN [outcome |-> "OutOfBounds", grid |-> g]
    ELSE [outcome |-> "ok",
          grid |-> [g EXCEPT ![y + 1] = [g[y + 1] EXCEPT ![x + 1] = state]]]

\* `as usize` of an i32: reduction modulo the word size.  usize has 64 bits
\* on the build target; the model's integers have 32, so the modulus is
\* scaled to 2^30, which still exceeds every Vec length of the model.
UsizeModulus == 1073741824
AsUsize(n) == n % UsizeModulus

\* the (dx, dy) pairs in the order of the two for loops, centre skipped
Offsets ==
    << <<-1, -1>>, <<0, -1>>, <<1, -1>>,
       <<-1, 0>>,             <<1, 0>>,
       <<-1, 1>>,  <<0, 1>>,  <<1, 1>> >>

\* the test of count_neighbors with indices reduced modulo the lengths
\* (a toroidal grid)
NeighborAliveWrapping(g, x, y, dx, dy) ==
    IF Len(g) = 0 THEN FALSE
    ELSE LET row == g[((y + dy) % Len(g)) + 1]
         IN  IF Len(row) = 0 THEN FALSE
             ELSE row[((x + dx) % Len(row)) + 1] = Alive

\* the lookup written with indexing, self.grid[ny as usize][nx as usize],
\* which panics where the neighbor is outside the grid
NeighborLookupIndexed(g, x, y, dx, dy) ==
    LET nx == AsUsize(x + dx)
        ny == AsUsize(y + dy)
    IN  IF IndexPanics(g, ny) THEN "OutOfBounds"
        ELSE IF IndexPanics(g[ny + 1], nx) THEN "OutOfBounds"
        ELSE g[ny + 1][nx + 1]

\* self.grid.get(ny as usize).and_then(|row| row.get(nx as usize)): the
\* cell, or "None" where a get returns None; a get never panics
NeighborLookup(g, x, y, dx, dy) ==
    LET nx == AsUsize(x + dx)
        ny == AsUsize(y + dy)
    IN  IF ~IsSome(g, ny) THEN "None"
        ELSE IF ~IsSome(g[ny + 1], nx) THEN "None"
        ELSE g[ny + 1][nx + 1]

\* the test with map_or(true, ...): an absent neighbor counts as Alive
NeighborAliveAbsentCounts(g, x, y, dx, dy) ==
    NeighborLookup(g, x, y, dx, dy) \in {"None", Alive}

\* the test of the if in the loop body of count_neighbors:
\* .map_or(false, |cell| *cell == CellState::Alive)
NeighborAlive(g, x, y, dx, dy) ==
    NeighborLookup(g, x, y, dx, dy) = Alive

RECURSIVE CountFrom(_, _, _, _, _)
CountFrom(g, x, y, k, count) ==
    IF k > Len(Offsets) THEN count
    ELSE CountFrom(g, x, y, k + 1,
                   IF NeighborAlive(g, x, y, Offsets[k][1], Offsets[k][2])
                   THEN count + 1 ELSE count)

\* count_neighbors without the skip of the centre cell
CountNeighborsWithCentre(g, x, y) ==
    CountFrom(g, x, y, 1, IF NeighborAlive(g, x, y, 0, 0) THEN 1 ELSE 0)

\* Grid::count_neighbors
CountNeighbors(g, x, y) == CountFrom(g, x, y, 1, 0)

\* the arm of the match in next_cell_generation that is taken
MatchArm(current_state, neighbors) ==
    IF current_state = Alive /\ neighbors \in 0..1 THEN 1
    ELSE IF current_state = Alive /\ neighbors \in 2..3 THEN 2
    ELSE IF current_state = Alive /\ neighbors \in 4..8 THEN 3
    ELSE IF current_state = Dead /\ neighbors = 3 THEN 4
    ELSE 5

\* the match with the survival arm written 2..=4
NextStateOffByOne(current_state, neighbors) ==
    IF current_state = Alive /\ neighbors \in 0..1 THEN Dead
    ELSE IF current_state = Alive /\ neighbors \in 2..4 THEN Alive
    ELSE IF current_state = Alive /\ neighbors \in 5..8 THEN Dead
    ELSE IF current_state = Dead /\ neighbors = 3 THEN Alive
    ELSE current_state

\* the match without the reproduction arm
NextStateNoBirth(current_state, neighbors) ==
    IF current_state = Alive /\ neighbors \in 2..3 THEN Alive ELSE Dead

\* the match with survival at 2 only and overpopulation from 3
NextStateSurvivalAtTwo(current_state, neighbors) ==
    IF current_state = Alive /\ neighbors = 2 THEN Alive
    ELSE IF current_state = Dead /\ neighbors = 3 THEN Alive
    ELSE Dead

\* the value of the match
NextState(current_state, neighbors) ==
    CASE MatchArm(current_state, neighbors) = 1 -> Dead
      [] MatchArm(current_state, neighbors) = 2 -> Alive
      [] MatchArm(current_state, neighbors) = 3 -> Dead
      [] MatchArm(current_state, neighbors) = 4 -> Alive
      [] OTHER -> current_state

\* the inner for loop: the iterations x..w-1 over row y of new_grid, in order,
\* each reading self.grid; the iterations of a range are those of its first
\* half followed by those of its second half, which keeps the evaluation
\* shallow on the 80 x 60 grid of the game
RECURSIVE RowLoop(_, _, _, _, _)
RowLoop(g, row, y, x, w) ==
    IF x >= w \/ x >= Len(row) THEN row
    ELSE IF w - x = 1
         THEN [row EXCEPT ![x + 1] =
                   NextState(g[y + 1][x + 1], CountNeighbors(g, x, y))]
         ELSE LET mid == (x + w) \div 2
              IN  RowLoop(g, RowLoop(g, row, y, x, mid), y, mid, w)

\* the outer for loop: the iterations y..h-1 over the rows of new_grid, in
\* order (split in the same way)
RECURSIVE GridLoop(_, _, _, _, _)
GridLoop(g, new_grid, y, w, h) ==
    IF y >= h \/ y >= Len(new_grid) THEN new_grid
    ELSE IF h - y = 1
         THEN [new_grid EXCEPT ![y + 1] = RowLoop(g, new_grid[y + 1], y, 0, w)]
         ELSE LET mid == (y + h) \div 2
              IN  GridLoop(g, GridLoop(g, new_grid, y, w, mid), mid, w, h)

\* the update done in place: every cell is written into the array the
\* neighbor counts are read from, in the order of the two loops
RECURSIVE InPlaceLoop(_, _, _, _)
InPlaceLoop(g, k, w, h) ==
    IF k >= w * h THEN g
    ELSE LET x == k % w
             y == k \div w
         IN  InPlaceLoop(
                 [g EXCEPT ![y + 1] =
                      [g[y + 1] EXCEPT ![x + 1] =
                           NextState(g[y + 1][x + 1], CountNeighbors(g, x, y))]],
                 k + 1, w, h)

InPlaceGeneration(g, w, h) == InPlaceLoop(g, 0, w, h)

\* next_cell_generation with new_grid allocated as width rows of height cells
TransposedGeneration(g, w, h) ==
    GridLoop(g, VecRepeat(VecRepeat(Dead, h), w), 0, w, h)

\* Grid::next_cell_generation: the value assigned to self.grid
NextCellGeneration(g, w, h) ==
    GridLoop(g, VecRepeat(VecRepeat(Dead, w), h), 0, w, h)

\* whether a lookup of count_neighbors(x, y) panics
CountPanics(g, x, y) ==
    \E k \in 1..Len(Offsets) :
        NeighborLookup(g, x, y, Offsets[k][1], Offsets[k][2]) = "OutOfBounds"

\* next_cell_generation as it runs: acc.new_grid is the array being filled,
\* acc.visited the cells computed so far in order, acc.outcome becomes
\* "OutOfBounds" when count_neighbors or self.grid[y][x] panics
RECURSIVE RowRun(_, _, _, _, _)
RowRun(g, acc, y, x, w) ==
    IF acc.outcome # "ok" \/ x >= Len(acc.new_grid[y + 1]) \/ x >= w THEN acc
    ELSE IF CountPanics(g, x, y) \/ IndexPanics(g, y) \/ IndexPanics(g[y + 1], x)
         THEN [acc EXCEPT !.outcome = "OutOfBounds"]
    ELSE RowRun(g,
                [outcome |-> "ok",
                 visited |-> Append(acc.visited, <<x, y>>),
                 new_grid |-> [acc.new_grid EXCEPT ![y + 1][x + 1] =
                                  NextState(g[y + 1][x + 1], CountNeighbors(g, x, y))]],
                y, x + 1, w)

RECURSIVE GridRun(_, _, _, _, _)
GridRun(g, acc, y, w, h) ==
    IF acc.outcome # "ok" \/ y >= Len(acc.new_grid) \/ y >= h THEN acc
    ELSE GridRun(g, RowRun(g, acc, y, 0, w), y + 1, w, h)

\* Grid::next_cell_generation, run from its first to its last statement
NextCellGenerationRun(g, w, h) ==
    GridRun(g, [outcome |-> "ok", visited |-> <<>>,
                new_grid |-> VecRepeat(VecRepeat(Dead, w), h)], 0, w, h)

(* ------------------------------ state machine -------------------------- *)

NoArg == [x |-> 0, y |-> 0, state |-> Dead]
NoRet == [outcome |-> "ok", cell |-> Dead, count |-> 0]

Fields == [grid |-> grid, width |-> width, height |-> height]

\* the record of a call of the main loop that read and did nothing
NoFrame ==
    [space |-> FALSE, left |-> FALSE, right |-> FALSE, mouse |-> <<0, 0>>,
     dt |-> 0, state_before |-> "Running", last_update_before |-> 0,
     sets |-> <<>>, generations |-> 0, outcome |-> "ok"]

\* a Grid on its own: there is no Game and no main loop
NoGame ==
    /\ game_state = "Running"
    /\ last_update = 0
    /\ pc = "none"
    /\ frames = 0
    /\ frame = NoFrame

Init ==
    \E w \in 0..MaxW, h \in 0..MaxH :
        /\ w * h <= MaxCells
        /\ grid = New(w, h).grid
        /\ width = New(w, h).width
        /\ height = New(w, h).height
        /\ ctor = [w |-> w, h |-> h]
        /\ pre = New(w, h)
        /\ last = [op |-> "new", arg |-> NoArg, ret |-> NoRet]
        /\ NoGame

\* the coordinates handed to get / set: every column and row of the grid
\* and one past the last
CoordX == 0..width
CoordY == 0..height

DoSet ==
    \E x \in CoordX, y \in CoordY, state \in CellState :
        LET r == Set(grid, x, y, state)
        IN  /\ grid' = r.grid
            /\ pre' = Fields
            /\ last' = [op |-> "set",
                        arg |-> [x |-> x, y |-> y, state |-> state],
                        ret |-> [outcome |-> r.outcome, cell |-> Dead, count |-> 0]]
            /\ UNCHANGED <<width, height, ctor>>
            /\ UNCHANGED gvars

DoGet ==
    \E x \in CoordX, y \in CoordY :
        LET r == Get(grid, x, y)
        IN  /\ pre' = Fields
            /\ last' = [op |-> "get",
                        arg |-> [x |-> x, y |-> y, state |-> Dead],
                        ret |-> [outcome |-> r.outcome, cell |-> r.cell, count |-> 0]]
            /\ UNCHANGED <<grid, width, height, ctor>>
            /\ UNCHANGED gvars

DoCountNeighbors ==
    \E x \in 0..(width - 1), y \in 0..(height - 1) :
        /\ pre' = Fields
        /\ last' = [op |-> "count_neighbors",
                    arg |-> [x |-> x, y |-> y, state |-> Dead],
                    ret |-> [outcome |-> "ok", cell |-> Dead, count |-> CountNeighbors(grid, x, y)]]
        /\ UNCHANGED <<grid, width, height, ctor>>
        /\ UNCHANGED gvars

DoNextCellGeneration ==
    /\ grid' = NextCellGeneration(grid, width, height)
    /\ pre' = Fields
    /\ last' = [op |-> "next_cell_generation", arg |-> NoArg, ret |-> NoRet]
    /\ UNCHANGED <<width, height, ctor>>
    /\ UNCHANGED gvars

Next ==
    \/ DoSet
    \/ DoGet
    \/ DoCountNeighbors
    \/ DoNextCellGeneration

Spec == Init /\ [][Next]_vars

(* ------------------------------ the blinker ---------------------------- *)

\* test_blinker_pattern: Grid::new(5, 5)
BlinkerSize == 5

\* the grid of test_blinker_pattern before its last set
BlinkerSetup ==
    Set(Set(New(BlinkerSize, BlinkerSize).grid, 2, 1, Alive).grid, 2, 2, Alive).grid

\* the state of test_blinker_pattern after its three sets
InitBlinker ==
    /\ grid = Set(BlinkerSetup, 2, 3, Alive).grid
    /\ width = BlinkerSize
    /\ height = BlinkerSize
    /\ ctor = [w |-> BlinkerSize, h |-> BlinkerSize]
    /\ pre = [grid |-> BlinkerSetup, width |-> BlinkerSize, height |-> BlinkerSize]
    /\ last = [op |-> "set",
               arg |-> [x |-> 2, y |-> 3, state |-> Alive],
               ret |-> NoRet]
    /\ NoGame

\* the calls made on a grid once its pattern is set up
NextPattern ==
    \/ DoNextCellGeneration
    \/ DoGet
    \/ DoCountNeighbors

SpecBlinker == InitBlinker /\ [][NextPattern]_vars

(* ------------------------------ the block ------------------------------ *)

\* largest width / height of the grid that holds the block
MaxBlockW == 5
MaxBlockH == 5

\* the grid after new(w, h) and the first three sets of the block at (bx, by)
BlockSetup(w, h, bx, by) ==
    Set(Set(Set(New(w, h).grid, bx, by, Alive).grid,
            bx + 1, by, Alive).grid,
        bx, by + 1, Alive).grid

\* a grid of at least 4x4 with a 2x2 block that touches no border
InitBlock ==
    \E w \in 4..MaxBlockW, h \in 4..MaxBlockH :
        \E bx \in 1..(w - 3), by \in 1..(h - 3) :
            /\ grid = Set(BlockSetup(w, h, bx, by), bx + 1, by + 1, Alive).grid
            /\ width = w
            /\ height = h
            /\ ctor = [w |-> w, h |-> h]
            /\ pre = [grid |-> BlockSetup(w, h, bx, by), width |-> w, height |-> h]
            /\ last = [op |-> "set",
                       arg |-> [x |-> bx + 1, y |-> by + 1, state |-> Alive],
                       ret |-> NoRet]
            /\ NoGame

SpecBlock == InitBlock /\ [][NextPattern]_vars

(* ------------------------------ the Game ------------------------------- *)

GRID_WIDTH == 80
GRID_HEIGHT == 60
\* CELL_SIZE as usize, of CELL_SIZE = 10.0
CELL_SIZE == 10
\* UPDATE_INTERVAL = 0.1 seconds, in milliseconds
UPDATE_INTERVAL == 100

\* the number of passes of the main loop that are run
MaxFrames == 2

\* the values get_frame_time() returns, in milliseconds
FrameTimes == {50, 100}

\* the values mouse_position() returns, in tenths of a pixel: inside an
\* Alive cell of the pattern, left of the window, on the right edge of the
\* 800 pixels wide window
MousePositions == {<<1055, 1009>>, <<-30, 55>>, <<8000, 3000>>}

\* `as usize` of an f32 given in tenths: the fraction is dropped and a
\* negative value becomes 0
F32AsUsize(tenths) == IF tenths < 0 THEN 0 ELSE tenths \div 10

\* mouse_position().0 as usize / CELL_SIZE as usize, and the same for .1
MouseCell(mouse) ==
    [x |-> F32AsUsize(mouse[1]) \div CELL_SIZE,
     y |-> F32AsUsize(mouse[2]) \div CELL_SIZE]

\* the cells Game::setup_glider sets, in its order
GliderCells ==
    << <<10, 10>>, <<13, 10>>, <<14, 11>>, <<10, 12>>, <<14, 12>>,
       <<11, 13>>, <<12, 13>>, <<13, 13>>, <<14, 13>> >>

\* Game::setup_glider from its k-th set on
RECURSIVE SetupGlider(_, _)
SetupGlider(g, k) ==
    IF k > Len(GliderCells) THEN g
    ELSE SetupGlider(Set(g, GliderCells[k][1], GliderCells[k][2], Alive).grid, k + 1)

\* Game::new
GameNew ==
    [grid |-> SetupGlider(New(GRID_WIDTH, GRID_HEIGHT).grid, 1),
     last_update |-> 0,
     state |-> "Running"]

\* the match of handle_input
Toggle(st) == IF st = "Running" THEN "Paused" ELSE "Running"

\* the set calls with the right button handled before the left one
WritesRightFirst(st, left, right, cell) ==
    IF st # "Paused" THEN <<>>
    ELSE (IF right THEN <<[x |-> cell.x, y |-> cell.y, state |-> Dead]>> ELSE <<>>)
         \o (IF left THEN <<[x |-> cell.x, y |-> cell.y, state |-> Alive]>> ELSE <<>>)

\* the set calls handle_input makes when the state is st, in their order
Writes(st, left, right, cell) ==
    IF st # "Paused" THEN <<>>
    ELSE (IF left THEN <<[x |-> cell.x, y |-> cell.y, state |-> Alive]>> ELSE <<>>)
         \o (IF right THEN <<[x |-> cell.x, y |-> cell.y, state |-> Dead]>> ELSE <<>>)

\* the set calls made one after the other; a panic ends handle_input
RECURSIVE ApplyWrites(_, _, _)
ApplyWrites(acc, writes, k) ==
    IF k > Len(writes) \/ acc.outcome # "ok" THEN acc
    ELSE LET r == Set(acc.grid, writes[k].x, writes[k].y, writes[k].state)
         IN  ApplyWrites(
                 [grid |-> r.grid,
                  sets |-> Append(acc.sets,
                                  [x |-> writes[k].x, y |-> writes[k].y,
                                   state |-> writes[k].state, outcome |-> r.outcome]),
                  outcome |-> r.outcome],
                 writes, k + 1)

\* Game::handle_input; mouse_position() returns one value during a frame
HandleInput(g, st, space, left, right, mouse) ==
    LET st1 == IF space THEN Toggle(st) ELSE st
        r == ApplyWrites([grid |-> g, sets |-> <<>>, outcome |-> "ok"],
                         Writes(st1, left, right, MouseCell(mouse)), 1)
    IN  [state |-> st1, grid |-> r.grid, sets |-> r.sets, outcome |-> r.outcome]

\* the condition of update with || for &&
AdvancesWhenEither(acc, st) == acc >= UPDATE_INTERVAL \/ st = "Running"

\* the condition of update with > for >=
AdvancesStrict(acc, st) == acc > UPDATE_INTERVAL /\ st = "Running"

\* the condition of the if of Game::update
Advances(acc, st) == acc >= UPDATE_INTERVAL /\ st = "Running"

\* Game::update
Update(g, w, h, lu, st, dt) ==
    IF Advances(lu + dt, st)
    THEN [grid |-> NextCellGeneration(g, w, h), last_update |-> 0, generations |-> 1]
    ELSE [grid |-> g, last_update |-> lu + dt, generations |-> 0]

\* Game::draw: the outcome of its get calls
Draw(g) ==
    IF \A y \in 0..(GRID_HEIGHT - 1), x \in 0..(GRID_WIDTH - 1) :
           ~IndexPanics(g, y) /\ ~IndexPanics(g[y + 1], x)
    THEN "ok" ELSE "OutOfBounds"

\* main after `let mut game = Game::new()`
InitGame ==
    /\ grid = GameNew.grid
    /\ width = GRID_WIDTH
    /\ height = GRID_HEIGHT
    /\ ctor = [w |-> GRID_WIDTH, h |-> GRID_HEIGHT]
    /\ pre = [grid |-> GameNew.grid, width |-> GRID_WIDTH, height |-> GRID_HEIGHT]
    /\ last = [op |-> "game_new", arg |-> NoArg, ret |-> NoRet]
    /\ game_state = GameNew.state
    /\ last_update = GameNew.last_update
    /\ pc = "handle_input"
    /\ frames = 0
    /\ frame = NoFrame

\* game.handle_input(): the buttons are read only when the state is Paused,
\* the mouse position only when a button is down
DoHandleInput ==
    /\ pc = "handle_input"
    /\ frames < MaxFrames
    /\ \E space \in BOOLEAN, left \in BOOLEAN, right \in BOOLEAN, mouse \in MousePositions :
           \E r \in {HandleInput(grid, game_state, space, left, right, mouse)} :
           LET read == r.state = "Paused"
           IN  /\ grid' = r.grid
               /\ game_state' = r.state
               /\ pc' = IF r.outcome = "ok" THEN "update" ELSE "panicked"
               /\ frame' = [space |-> space,
                            left |-> read /\ left,
                            right |-> read /\ right,
                            mouse |-> IF read /\ (left \/ right) THEN mouse ELSE <<0, 0>>,
                            dt |-> 0,
                            state_before |-> game_state,
                            last_update_before |-> last_update,
                            sets |-> r.sets,
                            generations |-> 0,
                            outcome |-> r.outcome]
    /\ pre' = Fields
    /\ last' = [op |-> "handle_input", arg |-> NoArg, ret |-> NoRet]
    /\ UNCHANGED <<width, height, ctor, last_update, frames>>

\* game.update(dt)
DoUpdate ==
    /\ pc = "update"
    /\ \E dt \in FrameTimes :
           \E r \in {Update(grid, width, height, last_update, game_state, dt)} :
               /\ grid' = r.grid
               /\ last_update' = r.last_update
               /\ frame' = [space |-> FALSE, left |-> FALSE, right |-> FALSE,
                            mouse |-> <<0, 0>>,
                            dt |-> dt,
                            state_before |-> game_state,
                            last_update_before |-> last_update,
                            sets |-> <<>>,
                            generations |-> r.generations,
                            outcome |-> "ok"]
    /\ pc' = "draw"
    /\ pre' = Fields
    /\ last' = [op |-> "update", arg |-> NoArg, ret |-> NoRet]
    /\ UNCHANGED <<width, height, ctor, game_state, frames>>

\* game.draw() and next_frame().await
DoDraw ==
    /\ pc = "draw"
    /\ \E outcome \in {Draw(grid)} :
           /\ frame' = [space |-> FALSE, left |-> FALSE, right |-> FALSE,
                        mouse |-> <<0, 0>>,
                        dt |-> 0,
                        state_before |-> game_state,
                        last_update_before |-> last_update,
                        sets |-> <<>>,
                        generations |-> 0,
                        outcome |-> outcome]
           /\ pc' = IF outcome = "ok" THEN "handle_input" ELSE "panicked"
    /\ frames' = frames + 1
    /\ pre' = Fields
    /\ last' = [op |-> "draw", arg |-> NoArg, ret |-> NoRet]
    /\ UNCHANGED <<grid, width, height, ctor, game_state, last_update>>

NextGame ==
    \/ DoHandleInput
    \/ DoUpdate
    \/ DoDraw

SpecGame == InitGame /\ [][NextGame]_vars

(* ------------------------------ properties ----------------------------- *)

\* the in-range coordinates of the grid
Cols == 0..(width - 1)
Rows == 0..(height - 1)

InRange(x, y) == x >= 0 /\ x < width /\ y >= 0 /\ y < height

Returned(cell) == [outcome |-> "ok", cell |-> cell]

\* the transition table of the Game of Life
RuleTable(state, n) ==
    IF state = Alive
    THEN (IF n \in {2, 3} THEN Alive ELSE Dead)
    ELSE (IF n = 3 THEN Alive ELSE Dead)

\* C1: after next_cell_generation every in-range cell holds the table's
\* result for its state and its neighbor count before the call.
C1_RuleTotality ==
    last.op = "next_cell_generation" =>
        \A y \in Rows, x \in Cols :
            Get(grid, x, y) =
                Returned(RuleTable(Get(pre.grid, x, y).cell,
                                   CountNeighbors(pre.grid, x, y)))

\* a generation was computed from a grid that has a cell for every row of
\* the table
C1_Witness ==
    /\ last.op = "next_cell_generation"
    /\ \E y \in Rows, x \in Cols :
           pre.grid[y + 1][x + 1] = Alive /\ CountNeighbors(pre.grid, x, y) <= 1
    /\ \E y \in Rows, x \in Cols :
           pre.grid[y + 1][x + 1] = Alive /\ CountNeighbors(pre.grid, x, y) \in 2..3
    /\ \E y \in Rows, x \in Cols :
           pre.grid[y + 1][x + 1] = Alive /\ CountNeighbors(pre.grid, x, y) >= 4
    /\ \E y \in Rows, x \in Cols :
           pre.grid[y + 1][x + 1] = Dead /\ CountNeighbors(pre.grid, x, y) = 3
    /\ \E y \in Rows, x \in Cols :
           pre.grid[y + 1][x + 1] = Dead /\ CountNeighbors(pre.grid, x, y) # 3

\* the synchronous step: all cells at once, from one grid
SyncStep(g) ==
    [r \in 1..Len(g) |->
        [c \in 1..Len(g[r]) |-> RuleTable(g[r][c], CountNeighbors(g, c - 1, r - 1))]]

\* three alive cells in a row, on one row and in the middle of a 3x3 grid
RowOfThree == << <<Alive, Alive, Alive>> >>
RowOfThreeInSquare ==
    << <<Dead, Dead, Dead>>, <<Alive, Alive, Alive>>, <<Dead, Dead, Dead>> >>

\* C2: the cell-by-cell loop of next_cell_generation yields the synchronous
\* step of the grid before the call, and on a row of three alive cells this
\* is not what an update in place yields.
C2_AtomicSnapshot ==
    last.op = "next_cell_generation" =>
        /\ grid = SyncStep(pre.grid)
        /\ pre.grid \in {RowOfThree, RowOfThreeInSquare} =>
               grid # InPlaceGeneration(pre.grid, pre.width, pre.height)

\* a generation was computed from the row of three in the 3x3 grid
C2_Witness ==
    /\ last.op = "next_cell_generation"
    /\ pre.grid = RowOfThreeInSquare
    /\ grid = << <<Dead, Alive, Dead>>, <<Dead, Alive, Dead>>, <<Dead, Alive, Dead>> >>

\* the offsets whose target lies inside the grid and is Alive
AliveInside(x, y) ==
    {o \in {-1, 0, 1} \X {-1, 0, 1} :
        /\ o # <<0, 0>>
        /\ InRange(x + o[1], y + o[2])
        /\ grid[y + o[2] + 1][x + o[1] + 1] = Alive}

IsCorner(x, y) == x \in {0, width - 1} /\ y \in {0, height - 1}
IsBorder(x, y) == x \in {0, width - 1} \/ y \in {0, height - 1}

\* C3: count_neighbors(x, y) returns exactly the number of Alive cells
\* among the offsets that stay inside the grid; a corner counts at most 3, a
\* border cell at most 5.
C3_EdgeClosure ==
    last.op = "count_neighbors" =>
        /\ last.ret.count = Cardinality(AliveInside(last.arg.x, last.arg.y))
        /\ IsCorner(last.arg.x, last.arg.y) => last.ret.count <= 3
        /\ IsBorder(last.arg.x, last.arg.y) => last.ret.count <= 5

\* count_neighbors of corner (0, 0) returned 3 on a 3x3 grid whose opposite
\* edges hold Alive cells
C3_Witness ==
    /\ last.op = "count_neighbors"
    /\ last.arg.x = 0 /\ last.arg.y = 0
    /\ width = 3 /\ height = 3
    /\ last.ret.count = 3
    /\ grid[1][3] = Alive /\ grid[3][1] = Alive /\ grid[3][3] = Alive

\* C4: get or set with x >= width or y >= height fails with OutOfBounds and
\* leaves the cells and the dimensions as they were.
C4_BoundsViolation ==
    (last.op \in {"get", "set"} /\ (last.arg.x >= width \/ last.arg.y >= height)) =>
        /\ last.ret.outcome = "OutOfBounds"
        /\ Fields = pre

\* a set of Alive one column past the end of a row of a grid with cells
C4_Witness ==
    /\ last.op = "set"
    /\ last.arg.state = Alive
    /\ last.arg.x = width /\ last.arg.y < height
    /\ width > 0
    /\ last.ret.outcome = "OutOfBounds"

\* C5: new with a zero width or height is rejected with InvalidDimensions.
C5_InvalidDimensions ==
    (last.op = "new" /\ (ctor.w = 0 \/ ctor.h = 0)) =>
        last.ret.outcome = "InvalidDimensions"

\* C6: the grid has height rows of width cells, the dimensions are those
\* handed to new, and every cell is Dead or Alive.
C6_ShapeInvariant ==
    /\ width = ctor.w
    /\ height = ctor.h
    /\ Len(grid) = height
    /\ \A r \in 1..Len(grid) :
           /\ Len(grid[r]) = width
           /\ \A c \in 1..Len(grid[r]) : grid[r][c] \in CellState
    /\ \A y \in Rows, x \in Cols : Get(grid, x, y).outcome = "ok"

\* a generation of a grid that is not square, with a cell Alive after it
C6_Witness ==
    /\ last.op = "next_cell_generation"
    /\ width = 3 /\ height = 2
    /\ \E y \in Rows, x \in Cols : grid[y + 1][x + 1] = Alive

\* C7: an in-range set changes no cell but (x, y) and no dimension; get
\* changes nothing.
C7_Frame ==
    /\ (last.op = "set" /\ InRange(last.arg.x, last.arg.y)) =>
           /\ width = pre.width
           /\ height = pre.height
           /\ Len(grid) = Len(pre.grid)
           /\ \A r \in 1..Len(grid) :
                  /\ Len(grid[r]) = Len(pre.grid[r])
                  /\ \A c \in 1..Len(grid[r]) :
                         <<c - 1, r - 1>> # <<last.arg.x, last.arg.y>> =>
                             grid[r][c] = pre.grid[r][c]
    /\ last.op = "get" => Fields = pre

\* a set that changed its cell while another cell of the same row and
\* another cell of the same column are Alive
C7_Witness ==
    /\ last.op = "set"
    /\ InRange(last.arg.x, last.arg.y)
    /\ grid # pre.grid
    /\ \E x \in Cols : x # last.arg.x /\ grid[last.arg.y + 1][x + 1] = Alive
    /\ \E y \in Rows : y # last.arg.y /\ grid[y + 1][last.arg.x + 1] = Alive

\* C8: new with positive dimensions yields a grid where get(x, y) is Dead
\* for every x < width and y < height.
C8_NewAllDead ==
    (last.op = "new" /\ ctor.w > 0 /\ ctor.h > 0) =>
        \A x \in 0..(ctor.w - 1), y \in 0..(ctor.h - 1) :
            Get(grid, x, y) = Returned(Dead)

\* a grid constructed wider than high
C8_Witness ==
    /\ last.op = "new"
    /\ ctor.w = 3 /\ ctor.h = 2
    /\ Get(grid, 2, 1) = Returned(Dead)

\* the last call was a set that wrote cell (x, y)
WroteCell(x, y) ==
    /\ last.op = "set"
    /\ last.ret.outcome = "ok"
    /\ last.arg.x = x /\ last.arg.y = y

\* C9: right after an in-range set(x, y, s), get(x, y) returns s; a call that
\* is neither a set on (x, y) nor a next_cell_generation keeps what get(x, y)
\* returns; a set of the state the cell already has changes nothing; get
\* returns the cell as it is.
C9_ReadAfterWrite ==
    /\ (last.op = "set" /\ last.ret.outcome = "ok") =>
           /\ Get(grid, last.arg.x, last.arg.y) = Returned(last.arg.state)
           /\ Get(pre.grid, last.arg.x, last.arg.y) = Returned(last.arg.state) =>
                  grid = pre.grid
    /\ last.op \in {"set", "get", "count_neighbors"} =>
           \A x \in Cols, y \in Rows :
               ~WroteCell(x, y) => Get(grid, x, y) = Get(pre.grid, x, y)
    /\ (last.op = "get" /\ InRange(last.arg.x, last.arg.y)) =>
           /\ last.ret.outcome = "ok"
           /\ Get(grid, last.arg.x, last.arg.y) = Returned(last.ret.cell)

\* a set of Dead on a cell that an earlier write had made Alive, off the
\* diagonal of the grid
C9_Witness ==
    /\ last.op = "set"
    /\ last.ret.outcome = "ok"
    /\ last.arg.state = Dead
    /\ last.arg.x # last.arg.y
    /\ Get(pre.grid, last.arg.x, last.arg.y) = Returned(Alive)
    /\ Get(grid, last.arg.x, last.arg.y) = Returned(Dead)

\* C10: every count_neighbors(x, y) of an in-range cell of a reachable grid
\* is within 0..8, and with that count the match falls through to its last
\* arm only for a Dead cell and a count other than 3.
C10_CountBounds ==
    last.op = "count_neighbors" =>
        /\ last.ret.count \in 0..8
        /\ MatchArm(grid[last.arg.y + 1][last.arg.x + 1], last.ret.count) = 5 =>
               /\ grid[last.arg.y + 1][last.arg.x + 1] = Dead
               /\ last.ret.count # 3

\* count_neighbors returned 8 for a Dead cell, which takes the last arm
C10_Witness ==
    /\ last.op = "count_neighbors"
    /\ last.ret.count = 8
    /\ grid[last.arg.y + 1][last.arg.x + 1] = Dead
    /\ MatchArm(Dead, last.ret.count) = 5

\* the vertical and the horizontal form of the blinker on the 5x5 grid
BlinkerVertical ==
    << <<Dead, Dead, Dead, Dead, Dead>>,
       <<Dead, Dead, Alive, Dead, Dead>>,
       <<Dead, Dead, Alive, Dead, Dead>>,
       <<Dead, Dead, Alive, Dead, Dead>>,
       <<Dead, Dead, Dead, Dead, Dead>> >>
BlinkerHorizontal ==
    << <<Dead, Dead, Dead, Dead, Dead>>,
       <<Dead, Dead, Dead, Dead, Dead>>,
       <<Dead, Alive, Alive, Alive, Dead>>,
       <<Dead, Dead, Dead, Dead, Dead>>,
       <<Dead, Dead, Dead, Dead, Dead>> >>

\* C11: from the vertical blinker on the 5x5 grid one next_cell_generation
\* yields the horizontal line, the next one the vertical form again, and the
\* grid is never anything but one of the two.
C11_Blinker ==
    /\ grid \in {BlinkerVertical, BlinkerHorizontal}
    /\ last.op = "set" => grid = BlinkerVertical
    /\ last.op = "next_cell_generation" =>
           /\ pre.grid = BlinkerVertical => grid = BlinkerHorizontal
           /\ pre.grid = BlinkerHorizontal => grid = BlinkerVertical

\* the second generation: the horizontal line has become vertical again
C11_Witness ==
    /\ last.op = "next_cell_generation"
    /\ pre.grid = BlinkerHorizontal
    /\ grid = BlinkerVertical

\* the Alive cells of the grid, as (x, y) pairs
AliveCells(g) ==
    {c \in (0..(width - 1)) \X (0..(height - 1)) : g[c[2] + 1][c[1] + 1] = Alive}

\* the only Alive cells are a 2x2 block with Dead cells all around it
IsBlock(g) ==
    \E bx \in 1..(width - 3), by \in 1..(height - 3) :
        AliveCells(g) = {<<bx, by>>, <<bx + 1, by>>, <<bx, by + 1>>, <<bx + 1, by + 1>>}

\* C12: on a grid of at least 4x4 whose only Alive cells are a 2x2 block
\* surrounded by Dead cells, next_cell_generation leaves the grid as it is,
\* so the grid is that block in every state.
C12_StillLife ==
    /\ width >= 4 /\ height >= 4
    /\ IsBlock(grid)
    /\ last.op = "next_cell_generation" => grid = pre.grid

\* a generation of the block in the lower right of a 5x4 grid
C12_Witness ==
    /\ last.op = "next_cell_generation"
    /\ width = 5 /\ height = 4
    /\ AliveCells(grid) = {<<2, 1>>, <<3, 1>>, <<2, 2>>, <<3, 2>>}
    /\ grid = pre.grid

\* C13: next_cell_generation runs to its end without an OutOfBounds panic,
\* in count_neighbors or in self.grid[y][x], computes every one of the
\* width * height cells exactly once, and its result is the new grid.
C13_CannotFail ==
    last.op = "next_cell_generation" =>
        LET run == NextCellGenerationRun(pre.grid, pre.width, pre.height)
        IN  /\ run.outcome = "ok"
            /\ run.new_grid = grid
            /\ Len(run.visited) = pre.width * pre.height
            /\ \A x \in Cols, y \in Rows :
                   Cardinality({i \in 1..Len(run.visited) : run.visited[i] = <<x, y>>}) = 1
            /\ \A x \in Cols, y \in Rows : ~CountPanics(pre.grid, x, y)

\* a generation of a 3x3 grid with Alive cells in two opposite corners,
\* whose neighbors at x - 1, y - 1, x + 1, y + 1 leave the grid
C13_Witness ==
    /\ last.op = "next_cell_generation"
    /\ width = 3 /\ height = 3
    /\ pre.grid[1][1] = Alive /\ pre.grid[3][3] = Alive
    /\ NextCellGenerationRun(pre.grid, pre.width, pre.height).visited[9] = <<2, 2>>

\* every cell of the grid is Dead
AllDead(g) == \A r \in 1..Len(g) : \A c \in 1..Len(g[r]) : g[r][c] = Dead

\* C15: on a grid in which every cell is Dead, count_neighbors(x, y) returns
\* 0 for every in-range (x, y).
C15_IsolatedCell ==
    (last.op = "count_neighbors" /\ AllDead(grid)) => last.ret.count = 0

\* count_neighbors returned 0 for a corner of an all-Dead 3x3 grid
C15_Witness ==
    /\ last.op = "count_neighbors"
    /\ width = 3 /\ height = 3
    /\ AllDead(grid)
    /\ last.arg.x = 2 /\ last.arg.y = 0
    /\ last.ret.count = 0

(* ------------------------------ the main loop -------------------------- *)

\* the accumulated time Game::update compares with UPDATE_INTERVAL
Accumulated == frame.last_update_before + frame.dt

\* the grid differs from pre.grid at most in the cells of the set calls of
\* the frame
ChangedOnlyBySets ==
    \A r \in 1..Len(grid) :
        grid[r] # pre.grid[r] =>
            \A c \in 1..Len(grid[r]) :
                grid[r][c] # pre.grid[r][c] =>
                    \E k \in 1..Len(frame.sets) :
                        frame.sets[k].x = c - 1 /\ frame.sets[k].y = r - 1

\* C16: the game starts Running; handle_input changes the state exactly when
\* Space was pressed, to the other state; an update made while Paused calls
\* next_cell_generation zero times and leaves the grid as it was, whatever
\* time has accumulated; handle_input changes the grid only in cells it
\* called set on, and draw does not change it.
C16_PauseControl ==
    /\ last.op = "game_new" => game_state = "Running"
    /\ last.op = "handle_input" =>
           /\ frame.space <=> game_state # frame.state_before
           /\ ChangedOnlyBySets
    /\ (last.op = "update" /\ game_state = "Paused") =>
           /\ frame.generations = 0
           /\ grid = pre.grid
    /\ last.op = "draw" =>
           /\ grid = pre.grid
           /\ game_state = frame.state_before

\* an update ran in the second frame of a pause, with twice UPDATE_INTERVAL
\* accumulated, and did not touch the grid
C16_Witness ==
    /\ last.op = "update"
    /\ game_state = "Paused"
    /\ frames = 1
    /\ Accumulated >= 2 * UPDATE_INTERVAL
    /\ frame.generations = 0
    /\ grid = pre.grid

\* C17: an update calls next_cell_generation at most once, and once exactly
\* when the state is Running and the accumulated time is at least
\* UPDATE_INTERVAL; the grid is then one synchronous step from the grid
\* before and the accumulator is reset to 0; otherwise the grid
\* is unchanged and the accumulator keeps the accumulated time, also while
\* Paused.
C17_TickCadence ==
    last.op = "update" =>
        /\ frame.generations \in {0, 1}
        /\ frame.generations = 1 <=>
               (game_state = "Running" /\ Accumulated >= UPDATE_INTERVAL)
        /\ frame.generations = 1 =>
               /\ last_update = 0
               /\ grid = SyncStep(pre.grid)
        /\ frame.generations = 0 =>
               /\ grid = pre.grid
               /\ last_update = Accumulated

\* the first update after a resume advanced at once: the accumulator already
\* held UPDATE_INTERVAL when the frame started, which only a pause allows
C17_Witness ==
    /\ last.op = "update"
    /\ game_state = "Running"
    /\ frame.last_update_before >= UPDATE_INTERVAL
    /\ frame.generations = 1
    /\ last_update = 0
    /\ grid # pre.grid

\* C18: handle_input calls set only when the state after the Space key is
\* Paused; when it is Running the grid is unchanged; with both buttons down
\* in a Paused frame the write of Alive is followed by the write of Dead to
\* the same cell, which ends Dead.
C18_EditOnlyPaused ==
    last.op = "handle_input" =>
        /\ frame.sets # <<>> => game_state = "Paused"
        /\ game_state = "Running" => grid = pre.grid
        /\ (game_state = "Paused" /\ frame.left /\ frame.right /\ frame.outcome = "ok") =>
               /\ Len(frame.sets) = 2
               /\ frame.sets[1].state = Alive
               /\ frame.sets[2].state = Dead
               /\ frame.sets[1].x = frame.sets[2].x
               /\ frame.sets[1].y = frame.sets[2].y
               /\ Get(grid, frame.sets[2].x, frame.sets[2].y).cell = Dead

\* both buttons were down in a Paused frame on an Alive cell of the glider,
\* which is now Dead
C18_Witness ==
    /\ last.op = "handle_input"
    /\ game_state = "Paused"
    /\ frame.left /\ frame.right
    /\ frame.outcome = "ok"
    /\ Len(frame.sets) = 2
    /\ Get(pre.grid, frame.sets[1].x, frame.sets[1].y).cell = Alive
    /\ Get(grid, frame.sets[1].x, frame.sets[1].y).cell = Dead

\* C19: every set call of handle_input has x < GRID_WIDTH and y < GRID_HEIGHT
\* and handle_input does not panic.
C19_InputInRange ==
    last.op = "handle_input" =>
        /\ frame.outcome = "ok"
        /\ \A k \in 1..Len(frame.sets) :
               frame.sets[k].x < GRID_WIDTH /\ frame.sets[k].y < GRID_HEIGHT

====
